---- MODULE Spec2Model ----
(***************************************************************************)
(* Model of the DGM evolution loop (src/evolution/evolution_loop.py), the  *)
(* evaluation harness (src/evolution/evaluation.py) and the validation     *)
(* gate and loader of src/agent_utils.py.                                  *)
(*                                                                         *)
(* Conventions                                                             *)
(*  - A source text is a sequence of lexemes ("ws" is a run of whitespace, *)
(*    "sq"/"dq" are the two quote characters, every other lexeme is a      *)
(*    maximal run of non-blank characters).                                *)
(*  - Python's None is NoCode for texts, NoId for identifiers and "None"   *)
(*    for modules.                                                         *)
(*  - A score is kept as its numerator over the common denominator         *)
(*    Len(validation_data) = ValSize: success_count / total_count.         *)
(*  - An archive record is referenced by its index in the archive: the     *)
(*    list returned by select_parents holds references to the dicts of     *)
(*    the archive, not copies.                                             *)
(*  - The file system is assumed to work: a write or a remove of a child   *)
(*    artifact takes effect.                                               *)
(***************************************************************************)
EXTENDS Integers, Sequences, FiniteSets, TLC

\* ------------------------------------------------------------------ bounds
MaxIterations == 2      \* largest num_iterations (T) explored
MaxK == 2               \* largest num_parents_to_select_k explored
TrainSize == 2          \* len(dataset['train'])
ValSize == 1            \* len(dataset['validation'])
MaxAttempts == 4        \* largest num_iterations * num_parents_to_select_k explored
MaxChunks == 2          \* chunks of source text in a policy-check input
MaxSplit == 3           \* largest split handed to the harness on its own
MaxN == 2               \* largest max_failures handed to the harness on its own
MaxText == 5            \* characters of a text handed to extract_final_answer
MaxLoads == 3           \* calls of load_agent_from_file made in a row
MaxAnswer == 2          \* characters of a reference answer or of a run's output

max_failures_per_child == 1   \* dgm_params['max_failures_per_child']

\* ------------------------------------------------------------ config values
task_model == <<"gpt-4o-mini">>

\* ------------------------------------------------------------------- values
NoCode == <<"<None>">>
NoId == <<>>
Outcome == {"right", "wrong", "raise"}
Exec == {"raises", "no_run_agent", "defines_run_agent"}

VersionId(n) == <<"v", n>>
IdNum(id) == id[2]

\* ----------------------------------------------------------- text helpers
RECURSIVE LStrip(_)
LStrip(s) == IF s # <<>> /\ Head(s) = "ws" THEN LStrip(Tail(s)) ELSE s

RECURSIVE RStrip(_)
RStrip(s) ==
    IF s # <<>> /\ s[Len(s)] = "ws" THEN RStrip(SubSeq(s, 1, Len(s) - 1)) ELSE s

\* str.strip()
Strip(s) == RStrip(LStrip(s))

\* clean_generated_code on a response without code fences
clean_generated_code(code_string) ==
    IF code_string = NoCode THEN <<>> ELSE Strip(code_string)

\* ------------------------------------------------- answer normalization
\* A text handed to extract_final_answer is a sequence of characters; " "
\* is any whitespace character, "x" any character that is neither
\* whitespace, '#', a digit, ',' nor '.', and "####" is four '#' in a row.
Digits == {"0", "1", "2", "3", "4", "5", "6", "7", "8", "9"}
NumberChars == Digits \cup {",", "."}

\* \s* from position i: the first position that holds no whitespace
RECURSIVE SkipSpaces(_, _)
SkipSpaces(text, i) ==
    IF i <= Len(text) /\ text[i] = " " THEN SkipSpaces(text, i + 1) ELSE i

\* [0-9,.]+ from position i: the position after the longest run
RECURSIVE NumberEnd(_, _)
NumberEnd(text, i) ==
    IF i <= Len(text) /\ text[i] \in NumberChars THEN NumberEnd(text, i + 1) ELSE i

\* re.findall(r"####\s*([0-9,.]+)", text) from position i on
RECURSIVE FindMarked(_, _)
FindMarked(text, i) ==
    IF i > Len(text) THEN <<>>
    ELSE IF text[i] = "####"
         THEN LET j == SkipSpaces(text, i + 1)
                  e == NumberEnd(text, j)
              IN  IF e > j THEN <<SubSeq(text, j, e - 1)>> \o FindMarked(text, e)
                  ELSE FindMarked(text, i + 1)
         ELSE FindMarked(text, i + 1)

\* re.findall(r"([0-9,.]+)", text) from position i on
RECURSIVE FindNumbers(_, _)
FindNumbers(text, i) ==
    IF i > Len(text) THEN <<>>
    ELSE IF text[i] \in NumberChars
         THEN LET e == NumberEnd(text, i)
              IN  <<SubSeq(text, i, e - 1)>> \o FindNumbers(text, e)
         ELSE FindNumbers(text, i + 1)

\* str.replace(",", "")
RECURSIVE RemoveCommas(_)
RemoveCommas(s) ==
    IF s = <<>> THEN <<>>
    ELSE (IF Head(s) = "," THEN <<>> ELSE <<Head(s)>>) \o RemoveCommas(Tail(s))

\* str.strip() on characters
RECURSIVE StripSpaces(_)
StripSpaces(s) ==
    IF s # <<>> /\ Head(s) = " " THEN StripSpaces(Tail(s))
    ELSE IF s # <<>> /\ s[Len(s)] = " " THEN StripSpaces(SubSeq(s, 1, Len(s) - 1))
    ELSE s

RStripOnePeriod(s) ==
    IF s # <<>> /\ s[Len(s)] = "." THEN SubSeq(s, 1, Len(s) - 1) ELSE s

\* str.rstrip(".")
RECURSIVE RStripPeriods(_)
RStripPeriods(s) ==
    IF s # <<>> /\ s[Len(s)] = "." THEN RStripPeriods(SubSeq(s, 1, Len(s) - 1))
    ELSE s

extract_final_answer(text) ==
    LET matches == FindMarked(text, 1)
        fallback_matches == FindNumbers(text, 1)
    IN  IF matches # <<>>
        THEN RStripPeriods(StripSpaces(RemoveCommas(matches[Len(matches)])))
        ELSE IF fallback_matches # <<>>
        THEN RStripPeriods(StripSpaces(RemoveCommas(
                 fallback_matches[Len(fallback_matches)])))
        ELSE <<>>

\* --------------------------------------------- classification of a sample
\* A sample with its run: answer is sample['answer'], output is what
\* agent_runner(question) returned, Raised when it raised an Exception.
Raised == <<"<raise>">>

EvalOutcomeEmptyIsRight(answer, output) ==
    IF output = Raised THEN "raise"
    ELSE IF extract_final_answer(output) = extract_final_answer(answer)
         THEN "right" ELSE "wrong"

\* evaluate_agent_on_dataset, lines 23-36: what one pass of the loop finds.
EvalOutcome(answer, output) ==
    IF output = Raised THEN "raise"
    ELSE LET correct_answer_final == extract_final_answer(answer)
             agent_answer_final == extract_final_answer(output)
         IN  IF agent_answer_final = correct_answer_final
                /\ correct_answer_final # <<>>
             THEN "right" ELSE "wrong"

\* find_failures_on_train, lines 62-88: what one pass of the loop finds.
MineOutcome(answer, output) ==
    LET correct_answer_final == extract_final_answer(answer) IN
    IF output = Raised THEN "raise"
    ELSE LET agent_answer_final == extract_final_answer(output) IN
         IF agent_answer_final = correct_answer_final
            /\ correct_answer_final # <<>>
         THEN "right" ELSE "wrong"

\* ----------------------------------------------------- validation gate (3)
ModelKeys == {"model", "MODEL", "meta_model"}
Quotes == {"sq", "dq"}
VendorLits == {"gpt-4o-mini", "GPT-4o-mini", "claude-x"}

RECURSIVE SkipWs(_, _)
SkipWs(code, i) ==
    IF i <= Len(code) /\ code[i] = "ws" THEN SkipWs(code, i + 1) ELSE i

\* Position after a match of model_pattern starting at i, 0 when there is none.
MatchEnd(code, i) ==
    IF i > Len(code) \/ code[i] \notin ModelKeys THEN 0
    ELSE LET e == SkipWs(code, i + 1) IN
         IF e > Len(code) \/ code[e] # "=" THEN 0
         ELSE LET q == SkipWs(code, e + 1) IN
              IF q + 2 > Len(code) THEN 0
              ELSE IF code[q] \in Quotes /\ code[q + 1] \in VendorLits
                      /\ code[q + 2] \in Quotes
                   THEN q + 3 ELSE 0

\* The literal captured by the match that ends before position e.
Captured(code, e) == <<code[e - 2]>>

\* model_pattern.findall(code_string): leftmost, non-overlapping matches.
RECURSIVE FindAll(_, _)
FindAll(code, i) ==
    IF i > Len(code) THEN <<>>
    ELSE LET e == MatchEnd(code, i) IN
         IF e = 0 THEN FindAll(code, i + 1)
         ELSE <<Captured(code, e)>> \o FindAll(code, e)

validate_agent_model_usage_FirstOnly(code_string, allowed_model) ==
    LET found_models == FindAll(code_string, 1) IN
    IF found_models = <<>> THEN TRUE
    ELSE Strip(found_models[1]) = Strip(allowed_model)

validate_agent_model_usage(code_string, allowed_model) ==
    LET found_models == FindAll(code_string, 1) IN
    IF found_models = <<>> THEN TRUE
    ELSE \A j \in 1..Len(found_models) :
            Strip(found_models[j]) = Strip(allowed_model)

\* ------------------------------------------------------ evaluation harness
hasattr_run_agent(agent_module) == agent_module = "module_with_run_agent"

IsFunctionalNoAttr(agent_module) == agent_module # "None"

\* `module is not None and hasattr(module, 'run_agent')`
IsFunctional(agent_module) ==
    agent_module # "None" /\ hasattr_run_agent(agent_module)

\* runs[i] is what agent_runner does on the i-th sample of the split:
\* "right" when the normalized answer equals the normalized reference and
\* the reference is not empty, "wrong" when it returns another answer,
\* "raise" when the call raises an Exception.
RECURSIVE CountRightUntilRaise(_)
CountRightUntilRaise(runs) ==
    IF runs = <<>> \/ Head(runs) = "raise" THEN 0
    ELSE (IF Head(runs) = "right" THEN 1 ELSE 0) + CountRightUntilRaise(Tail(runs))

RECURSIVE CountRight(_)
CountRight(runs) ==
    IF runs = <<>> THEN 0
    ELSE (IF Head(runs) = "right" THEN 1 ELSE 0) + CountRight(Tail(runs))

evaluate_agent_on_dataset(agent_module, runs) ==
    IF agent_module = "None" \/ ~hasattr_run_agent(agent_module) THEN 0
    ELSE IF Len(runs) = 0 THEN 0
    ELSE CountRight(runs)

\* An entry of failures or successes: the sample (by its position in the
\* shuffled split) and the agent_output recorded for it.
Entry(i, agent_output) == [sample |-> i, agent_output |-> agent_output]

RECURSIVE MineCapAfter(_, _, _, _, _, _)
MineCapAfter(runs, i, max_failures, failures, successes, invoked) ==
    IF i > Len(runs) \/ Len(failures) > max_failures
    THEN [failures |-> failures, successes |-> successes, invoked |-> invoked]
    ELSE IF runs[i] = "right"
         THEN MineCapAfter(runs, i + 1, max_failures, failures,
                           Append(successes, Entry(i, "raw")), invoked + 1)
         ELSE MineCapAfter(runs, i + 1, max_failures,
                           Append(failures, Entry(i, "Wrong Answer")), successes,
                           invoked + 1)

RECURSIVE MineCapsSuccesses(_, _, _, _, _, _)
MineCapsSuccesses(runs, i, max_failures, failures, successes, invoked) ==
    IF i > Len(runs) \/ Len(failures) >= max_failures
          \/ Len(successes) >= max_failures
    THEN [failures |-> failures, successes |-> successes, invoked |-> invoked]
    ELSE IF runs[i] = "right"
         THEN MineCapsSuccesses(runs, i + 1, max_failures, failures,
                                Append(successes, Entry(i, "raw")), invoked + 1)
         ELSE MineCapsSuccesses(runs, i + 1, max_failures,
                                Append(failures, Entry(i, "Wrong Answer")),
                                successes, invoked + 1)

RECURSIVE MineRaiseAborts(_, _, _, _, _, _)
MineRaiseAborts(runs, i, max_failures, failures, successes, invoked) ==
    IF i > Len(runs) \/ Len(failures) >= max_failures
    THEN [failures |-> failures, successes |-> successes, invoked |-> invoked]
    ELSE IF runs[i] = "right"
         THEN MineRaiseAborts(runs, i + 1, max_failures, failures,
                              Append(successes, Entry(i, "raw")), invoked + 1)
         ELSE IF runs[i] = "wrong"
         THEN MineRaiseAborts(runs, i + 1, max_failures,
                              Append(failures, Entry(i, "Wrong Answer")), successes,
                              invoked + 1)
         ELSE [failures |-> failures, successes |-> successes,
               invoked |-> invoked + 1]

\* The loop of find_failures_on_train from sample i of the shuffled split
\* on; invoked counts the calls agent_runner(question) made so far.
RECURSIVE Mine(_, _, _, _, _, _)
Mine(runs, i, max_failures, failures, successes, invoked) ==
    IF i > Len(runs) \/ Len(failures) >= max_failures
    THEN [failures |-> failures, successes |-> successes, invoked |-> invoked]
    ELSE IF runs[i] = "right"
         THEN Mine(runs, i + 1, max_failures, failures,
                   Append(successes, Entry(i, "raw")), invoked + 1)
         ELSE IF runs[i] = "wrong"
         THEN Mine(runs, i + 1, max_failures,
                   Append(failures, Entry(i, "Wrong Answer")), successes,
                   invoked + 1)
         ELSE Mine(runs, i + 1, max_failures,
                   Append(failures, Entry(i, "Runtime Error")), successes,
                   invoked + 1)

find_failures_on_train(agent_module, runs, max_failures) ==
    IF agent_module = "None" \/ ~hasattr_run_agent(agent_module)
    THEN [failures |-> <<>>, successes |-> <<>>, invoked |-> 0]
    ELSE Mine(runs, 1, max_failures, <<>>, <<>>, 0)

\* train_dataset.shuffle(seed=...): the samples in the order perm.
Shuffle(dataset, perm) == [i \in 1..Len(dataset) |-> dataset[perm[i]]]

\* -------------------------------------------------------------- artifacts
ArtifactPathShared(n) == <<"math_agent", IF n = 0 THEN 0 ELSE 1>>

\* os.path.join(agent_folder, f"math_agent_v{n}.py")
ArtifactPath(n) == <<"math_agent", n>>
start_agent_path == ArtifactPath(0)
SeedCode == <<"a", "ws">>

\* What the meta model may answer (before clean_generated_code).
Responses ==
    { <<>>, <<"ws">>, <<"ws", "a", "ws">>,
      <<"model", "=", "dq", "claude-x", "dq">>,
      <<"model", "=", "dq", "gpt-4o-mini", "dq">> }

\* with open(filepath, 'w') as f: f.write(code)
save_agent_code(fs, filepath, code) ==
    [p \in (DOMAIN fs) \cup {filepath} |-> IF p = filepath THEN code ELSE fs[p]]

\* os.remove(child_path)
os_remove(fs, filepath) == [p \in (DOMAIN fs) \ {filepath} |-> fs[p]]

os_remove_Noop(fs, filepath) == fs

RemoveInvalidAgent(fs, filepath) == os_remove(fs, filepath)

load_agent_from_file_NoCatch(fs, filepath, exec) ==
    IF filepath \notin DOMAIN fs \/ exec = "raises" THEN "<raised>"
    ELSE IF exec = "defines_run_agent" THEN "module_with_run_agent"
    ELSE "module"

\* exec is what executing the artifact's top level does: "raises" is an
\* Exception out of spec.loader.exec_module, a SyntaxError included; a
\* missing file makes exec_module raise FileNotFoundError.  The except
\* clause of lines 97-101 turns each into the result None.
load_agent_from_file(fs, filepath, exec) ==
    IF filepath \notin DOMAIN fs THEN "None"
    ELSE IF exec = "raises" THEN "None"
    ELSE IF exec = "defines_run_agent" THEN "module_with_run_agent"
    ELSE "module"

\* sys.path after load_agent_from_file returned agent_module: line 83
\* inserts module_dir when it is not in the list, lines 88-89 run only when
\* exec_module returned.
sys_path_after(sys_path, module_dir, agent_module) ==
    LET inserted == IF \E i \in 1..Len(sys_path) : sys_path[i] = module_dir
                    THEN sys_path ELSE <<module_dir>> \o sys_path
    IN  IF agent_module # "None" /\ inserted[1] = module_dir
        THEN Tail(inserted) ELSE inserted

\* sys.modules after load_agent_from_file returned agent_module: line 78
\* registers module_name, lines 92-93 run only when exec_module returned.
sys_modules_after(sys_modules, module_name, agent_module) ==
    IF agent_module # "None" THEN sys_modules \ {module_name}
    ELSE sys_modules \cup {module_name}

\* response is the meta model's answer, NoCode when the API call raises.
call_developer_agent(response) ==
    IF response = NoCode THEN NoCode ELSE clean_generated_code(response)

\* The developer agent's answer is a source text with something in it.
IsProposal(code) == code # NoCode /\ Len(code) > 0

NotCodeNoneOnly(code) == code = NoCode

\* `not new_code`
NotCode(code) == code = NoCode \/ code = <<>>

\* ------------------------------------------------------------- selection
\* agent['score'] < 1.0
ScoreBelowOne(score) == score < ValSize

EligibleSetUnfiltered(arch) == 1..Len(arch)

\* eligible_set of select_parents, as archive indices
EligibleSet(arch) ==
    LET below == {i \in 1..Len(arch) : ScoreBelowOne(arch[i].score)} IN
    IF below = {} THEN 1..Len(arch) ELSE below

select_parents_Ahead(arch, kk) ==
    IF arch = <<>> THEN {<<>>} ELSE [1..kk -> 1..(Len(arch) + 1)]

\* Every w_i = s_i * h_i is positive (a sigmoid times 1/(1+n_i)), so each
\* member of the eligible set can be drawn at each of the k draws.
select_parents(arch, kk) ==
    IF EligibleSet(arch) = {} THEN {<<>>}
    ELSE [1..kk -> EligibleSet(arch)]

ArchiveAfterSelectionReversed(arch) ==
    [i \in 1..Len(arch) |-> arch[Len(arch) + 1 - i]]

\* The archive after select_parents: lines 14-37 read agent['score'] and
\* agent['children_count'] and append to the fresh lists weights and
\* agents_in_set; no statement writes to archive or to a record.
ArchiveAfterSelection(arch) == arch

\* ------------------------------------------------------------- the archive
AgentRecordOrphan(id, path, score, parent_id) ==
    [id |-> id, path |-> path, score |-> score,
     children_count |-> 0, parent_id |-> NoId]

AgentRecord(id, path, score, parent_id) ==
    [id |-> id, path |-> path, score |-> score,
     children_count |-> 0, parent_id |-> parent_id]

NextVersionStuck(counter) == counter
NextVersionSkipsOne(counter) == counter + 2

\* agent_version_counter += 1
NextVersion(counter) == counter + 1

IsDuplicateExact(new, parent) == new = parent

\* new_code.strip() == parent_code.strip()
IsDuplicate(new, parent) == Strip(new) = Strip(parent)

AppendChildNoCount(arch, p, rec) == Append(arch, rec)

\* parent_agent['children_count'] += 1 ; archive.append(child_agent_data)
AppendChild(arch, p, rec) ==
    Append([arch EXCEPT ![p].children_count = @ + 1], rec)

\* Stable insertion of x behind every record whose score is >= x.score.
RECURSIVE InsertDesc(_, _)
InsertDesc(sorted, x) ==
    IF sorted = <<>> THEN <<x>>
    ELSE IF Head(sorted).score >= x.score
         THEN <<Head(sorted)>> \o InsertDesc(Tail(sorted), x)
         ELSE <<x>> \o sorted

\* sorted(archive, key=lambda x: x['score'], reverse=True)
RECURSIVE SortedArchive(_)
SortedArchive(arch) ==
    IF arch = <<>> THEN <<>>
    ELSE InsertDesc(SortedArchive(SubSeq(arch, 1, Len(arch) - 1)), arch[Len(arch)])

BestAgentFirst(arch) == <<arch[1]>>

BestAgentLatestOfTies(arch) ==
    LET top == {i \in 1..Len(arch) :
                   \A j \in 1..Len(arch) : arch[i].score >= arch[j].score}
    IN  <<arch[CHOOSE i \in top : \A j \in top : i >= j]>>

\* return sorted_archive[0]
BestAgent(arch) == <<SortedArchive(arch)[1]>>

\* ------------------------------------------------------------------ state
VARIABLES
    pc,                     \* position in run_dgm_loop
    num_iterations,         \* parameter T
    num_parents_to_select_k,\* dgm_params['num_parents_to_select_k']
    archive,                \* list of agent records
    agent_version_counter,
    proposals,              \* non-empty answers call_developer_agent gave so far
    t,                      \* iterations completed
    parents,                \* selected parents (references into archive)
    pidx,                   \* position of parent_agent in parents
    parent_code,            \* local of the attempt
    new_code,               \* local of the attempt
    files,                  \* artifact path -> source text
    result,                 \* <<>> is None, <<r>> the returned record
    event,                  \* the last step's log entry
    gate,                   \* one call of validate_agent_model_usage
    harness,                \* one call of the evaluation harness
    norm,                   \* one call of extract_final_answer
    loader                  \* calls of load_agent_from_file and what they leave

\* State of the checks of single functions, idle while the loop runs.
aux == <<gate, harness, norm, loader>>

vars == <<pc, num_iterations, num_parents_to_select_k, archive,
          agent_version_counter, proposals, t, parents, pidx, parent_code,
          new_code, files, result, event, gate, harness, norm, loader>>

GateIdle == [code_string |-> <<>>, allowed_model |-> <<>>, verdict |-> "idle"]
HarnessIdle == [phase |-> "idle"]
NormIdle == [phase |-> "idle"]
LoaderIdle == [phase |-> "idle"]

\* exec: what the load of a seed or child observed ("none": no such load);
\* scored: evaluate_agent_on_dataset was called; right: the samples it saw
\* answered correctly.
Event(kind, exec, scored, runs) ==
    [kind |-> kind, exec |-> exec, scored |-> scored,
     right |-> Cardinality({i \in 1..Len(runs) : runs[i] = "right"})]

Init ==
    /\ pc = "init"
    /\ num_iterations \in 0..MaxIterations
    /\ num_parents_to_select_k \in 0..MaxK
    /\ num_iterations * num_parents_to_select_k <= MaxAttempts
    /\ archive = <<>>
    /\ agent_version_counter = 0
    /\ proposals = 0
    /\ t = 0
    /\ parents = <<>>
    /\ pidx = 0
    /\ parent_code = NoCode
    /\ new_code = NoCode
    /\ files = [p \in {start_agent_path} |-> SeedCode]
    /\ result = <<>>
    /\ event = Event("start", "none", FALSE, <<>>)
    /\ gate = GateIdle
    /\ harness = HarnessIdle
    /\ norm = NormIdle
    /\ loader = LoaderIdle

\* Lines 72-95: load and score the seed.
Initialize ==
    /\ pc = "init"
    /\ \E exec \in Exec :
         LET agent_module_v0 == load_agent_from_file(files, start_agent_path, exec) IN
         IF ~IsFunctional(agent_module_v0)
         THEN /\ pc' = "aborted"
              /\ event' = Event("seed_fatal", exec, FALSE, <<>>)
              /\ UNCHANGED archive
         ELSE \E runs \in [1..ValSize -> Outcome] :
                /\ archive' = Append(archive,
                      AgentRecord(VersionId(agent_version_counter), start_agent_path,
                                  evaluate_agent_on_dataset(agent_module_v0, runs), NoId))
                /\ pc' = "select"
                /\ event' = Event("seed_ok", exec, TRUE, runs)
    /\ UNCHANGED <<num_iterations, num_parents_to_select_k, agent_version_counter,
                   proposals,
                   t, parents, pidx, parent_code, new_code, files, result>>
    /\ UNCHANGED aux

\* Lines 98-115: the head of one iteration.
Iterate ==
    /\ pc = "select"
    /\ t < num_iterations
    /\ \E sel \in select_parents(archive, num_parents_to_select_k) :
         IF sel = <<>>
         THEN /\ pc' = "complete"
              /\ event' = Event("break", "none", FALSE, <<>>)
              /\ UNCHANGED <<parents, pidx>>
         ELSE /\ parents' = sel
              /\ pidx' = 1
              /\ pc' = "parent"
              /\ event' = Event("selected", "none", FALSE, <<>>)
    /\ archive' = ArchiveAfterSelection(archive)
    /\ UNCHANGED <<num_iterations, num_parents_to_select_k,
                   agent_version_counter, proposals, t, parent_code, new_code,
                   files, result>>
    /\ UNCHANGED aux

AdvanceStuck ==
    /\ pc' = "parent"
    /\ UNCHANGED <<pidx, parents, t>>

\* `continue` or the end of the body of `for parent_agent in parents`.
Advance ==
    IF pidx < Len(parents)
    THEN /\ pidx' = pidx + 1
         /\ pc' = "parent"
         /\ UNCHANGED <<parents, t>>
    ELSE /\ pidx' = 0
         /\ parents' = <<>>
         /\ t' = t + 1
         /\ pc' = "select"

SkipConsumesId(kind, exec) ==
    /\ event' = Event(kind, "none", FALSE, <<>>)
    /\ parent_code' = NoCode
    /\ new_code' = NoCode
    /\ Advance
    /\ agent_version_counter' = agent_version_counter + 1
    /\ UNCHANGED <<archive, files>>

Skip(kind, exec) ==
    /\ event' = Event(kind, "none", FALSE, <<>>)
    /\ parent_code' = NoCode
    /\ new_code' = NoCode
    /\ Advance
    /\ UNCHANGED <<archive, agent_version_counter, files>>

\* Lines 118-159: reload the parent, mine failures, read its source, ask
\* the developer agent.
ProcessParent ==
    /\ pc = "parent"
    /\ LET parent_agent == archive[parents[pidx]] IN
       \E exec \in Exec :
         LET parent_module == load_agent_from_file(files, parent_agent.path, exec) IN
         IF parent_module = "None"
         THEN Skip("parent_load_failed", exec) /\ UNCHANGED proposals
         ELSE \E runs \in [1..TrainSize -> Outcome] :
           LET mined == find_failures_on_train(parent_module, runs,
                                               max_failures_per_child) IN
           IF mined.failures = <<>>
           THEN Skip("no_failures", exec) /\ UNCHANGED proposals
           ELSE \E found \in BOOLEAN :
             IF ~found THEN Skip("parent_unreadable", exec) /\ UNCHANGED proposals
             ELSE \E response \in Responses \cup {NoCode} :
               LET code == call_developer_agent(response) IN
               /\ proposals' = proposals + (IF IsProposal(code) THEN 1 ELSE 0)
               /\ IF NotCode(code) THEN Skip("no_code", exec)
                  ELSE /\ parent_code' = files[parent_agent.path]
                       /\ new_code' = code
                       /\ pc' = "child"
                       /\ event' = Event("proposed", "none", FALSE, <<>>)
                       /\ UNCHANGED <<archive, agent_version_counter, files,
                                      parents, pidx, t>>
    /\ UNCHANGED <<num_iterations, num_parents_to_select_k, result>>
    /\ UNCHANGED aux

DiscardCounted(kind, exec) ==
    /\ event' = Event(kind, exec, FALSE, <<>>)
    /\ archive' = [archive EXCEPT ![parents[pidx]].children_count = @ + 1]

Discard(kind, exec) ==
    /\ event' = Event(kind, exec, FALSE, <<>>)
    /\ UNCHANGED archive

\* Lines 161-214: number the child, gate it, persist, load, score, archive.
ProcessChild ==
    /\ pc = "child"
    /\ agent_version_counter' = NextVersion(agent_version_counter)
    /\ LET p == parents[pidx]
           parent_agent == archive[p]
           child_id == VersionId(agent_version_counter')
           child_path == ArtifactPath(agent_version_counter')
           saved == save_agent_code(files, child_path, new_code)
       IN
       IF IsDuplicate(new_code, parent_code)
       THEN Discard("identical", "none") /\ UNCHANGED files
       ELSE IF ~validate_agent_model_usage(new_code, task_model)
       THEN Discard("model_validation", "none") /\ UNCHANGED files
       ELSE \E exec \in Exec :
         LET child_module == load_agent_from_file(saved, child_path, exec) IN
         IF IsFunctional(child_module)
         THEN \E runs \in [1..ValSize -> Outcome] :
                /\ archive' = AppendChild(archive, p,
                      AgentRecord(child_id, child_path,
                                  evaluate_agent_on_dataset(child_module, runs),
                                  parent_agent.id))
                /\ files' = saved
                /\ event' = Event("archived", exec, TRUE, runs)
         ELSE /\ Discard("not_functional", exec)
              /\ files' = RemoveInvalidAgent(saved, child_path)
    /\ parent_code' = NoCode
    /\ new_code' = NoCode
    /\ Advance
    /\ UNCHANGED <<num_iterations, num_parents_to_select_k, result, proposals>>
    /\ UNCHANGED aux

\* Lines 216-231: sort the archive and return its head.
Complete ==
    /\ \/ pc = "complete"
       \/ pc = "select" /\ t >= num_iterations
    /\ result' = IF archive = <<>> THEN <<>> ELSE BestAgent(archive)
    /\ pc' = "done"
    /\ event' = Event("complete", "none", FALSE, <<>>)
    /\ UNCHANGED <<num_iterations, num_parents_to_select_k, archive,
                   agent_version_counter, proposals, t, parents, pidx,
                   parent_code, new_code, files>>
    /\ UNCHANGED aux

Next == Initialize \/ Iterate \/ ProcessParent \/ ProcessChild \/ Complete

Spec == Init /\ [][Next]_vars

\* The loop is sequential code: it always takes its next step.
FairSpec == Spec /\ WF_vars(Next)


\* ---------------------------------------- the policy check as a function
\* Pieces of source text a proposal is assembled from.
Chunks ==
    { <<"model", "=", "dq", "gpt-4o-mini", "dq">>,
      <<"model", "ws", "=", "ws", "sq", "claude-x", "sq">>,
      <<"MODEL", "=", "dq", "GPT-4o-mini", "dq">>,
      <<"meta_model", "=", "sq", "gpt-4o-mini", "dq">>,
      <<"model", "=", "gpt-4o-mini">>,
      <<"model", "=", "dq", "llama-3", "dq">>,
      <<"model", "=", "dq", "claude-x">>,
      <<"model", "dq", "claude-x", "dq">>,
      <<"dq", "claude-x", "dq">>,
      <<"x">>,
      <<"ws">> }

RECURSIVE Texts(_)
Texts(n) ==
    IF n = 0 THEN {<<>>}
    ELSE Texts(n - 1) \cup {a \o c : a \in Texts(n - 1), c \in Chunks}

AllowedModels ==
    { <<"gpt-4o-mini">>, <<"gpt-4o-mini", "ws">>, <<"claude-x">>, <<"llama-3">> }

\* The loop's variables while a single function is exercised.
LoopIdle ==
    /\ num_iterations = 0
    /\ num_parents_to_select_k = 0
    /\ archive = <<>>
    /\ agent_version_counter = 0
    /\ proposals = 0
    /\ t = 0
    /\ parents = <<>>
    /\ pidx = 0
    /\ parent_code = NoCode
    /\ new_code = NoCode
    /\ files = [p \in {start_agent_path} |-> SeedCode]
    /\ result = <<>>
    /\ event = Event("start", "none", FALSE, <<>>)

loop == <<num_iterations, num_parents_to_select_k, archive,
          agent_version_counter, proposals, t, parents, pidx, parent_code,
          new_code, files, result, event>>

GateInit ==
    /\ pc = "gate"
    /\ LoopIdle
    /\ harness = HarnessIdle
    /\ norm = NormIdle
    /\ loader = LoaderIdle
    /\ gate \in [code_string : Texts(MaxChunks), allowed_model : AllowedModels,
                 verdict : {"pending"}]

\* One call validate_agent_model_usage(code_string, allowed_model).
Validate ==
    /\ pc = "gate"
    /\ gate.verdict = "pending"
    /\ gate' = [gate EXCEPT !.verdict =
                  IF validate_agent_model_usage(gate.code_string, gate.allowed_model)
                  THEN "pass" ELSE "reject"]
    /\ UNCHANGED <<pc, loop, harness, norm, loader>>

GateNext == Validate

GateSpec == GateInit /\ [][GateNext]_vars

\* ------------------------------------------- the harness on its own (5)
\* One call of find_failures_on_train or of evaluate_agent_on_dataset on a
\* split of at most MaxSplit samples; dataset[i] is what the candidate does
\* on sample i.
Datasets == UNION {[1..n -> Outcome] : n \in 0..MaxSplit}

HarnessInit ==
    /\ pc = "harness"
    /\ LoopIdle
    /\ gate = GateIdle
    /\ norm = NormIdle
    /\ loader = LoaderIdle
    /\ harness \in [phase : {"pending"}, agent_module : {"None", "module",
                                                          "module_with_run_agent"},
                     dataset : Datasets, max_failures : 0..MaxN]

\* failures, successes = find_failures_on_train(agent_module, dataset, N)
MineFailures ==
    /\ pc = "harness"
    /\ harness.phase = "pending"
    /\ \E perm \in Permutations(1..Len(harness.dataset)) :
          LET shuffled == Shuffle(harness.dataset, perm) IN
          harness' = [phase |-> "mined", agent_module |-> harness.agent_module,
                      max_failures |-> harness.max_failures, runs |-> shuffled,
                      ret |-> find_failures_on_train(harness.agent_module, shuffled,
                                                     harness.max_failures)]
    /\ UNCHANGED <<pc, loop, gate, norm, loader>>

\* accuracy = evaluate_agent_on_dataset(agent_module, dataset): ret is
\* success_count, the numerator of the accuracy over Len(dataset).
Score ==
    /\ pc = "harness"
    /\ harness.phase = "pending"
    /\ harness' = [phase |-> "scored", agent_module |-> harness.agent_module,
                   runs |-> harness.dataset,
                   ret |-> evaluate_agent_on_dataset(harness.agent_module,
                                                     harness.dataset)]
    /\ UNCHANGED <<pc, loop, gate, norm, loader>>

HarnessNext == MineFailures \/ Score

HarnessSpec == HarnessInit /\ [][HarnessNext]_vars

\* -------------------------------------- the normalization on its own
AnswerChars == {"####", " ", "1", "2", ",", ".", "x"}
AnswerExamples ==
    { <<"1", ",", "2", "3", "4", ".">>, <<"7", ".", "5">>,
      <<"x", "x", "x", " ", "####", " ", "4", "2">> }
AnswerTexts == UNION {[1..n -> AnswerChars] : n \in 0..MaxText} \cup AnswerExamples

NormInit ==
    /\ pc = "normalize"
    /\ LoopIdle
    /\ gate = GateIdle
    /\ harness = HarnessIdle
    /\ loader = LoaderIdle
    /\ norm \in [phase : {"pending"}, text : AnswerTexts]

\* ret = extract_final_answer(text)
Normalize ==
    /\ pc = "normalize"
    /\ norm.phase = "pending"
    /\ norm' = [phase |-> "done", text |-> norm.text,
                ret |-> extract_final_answer(norm.text)]
    /\ UNCHANGED <<pc, loop, gate, harness, loader>>

NormNext == Normalize

NormSpec == NormInit /\ [][NormNext]_vars

\* ---------------------------------- the two classifications side by side
\* One sample given to evaluate_agent_on_dataset and to
\* find_failures_on_train, each as a split of that one sample.
ClassifyTexts == UNION {[1..n -> AnswerChars] : n \in 0..MaxAnswer}

ClassifyInit ==
    /\ pc = "classify"
    /\ LoopIdle
    /\ gate = GateIdle
    /\ norm = NormIdle
    /\ loader = LoaderIdle
    /\ harness \in [phase : {"pending"}, answer : ClassifyTexts,
                     output : ClassifyTexts \cup {Raised}]

Classify ==
    /\ pc = "classify"
    /\ harness.phase = "pending"
    /\ harness' =
          [phase |-> "classified", answer |-> harness.answer,
           output |-> harness.output,
           score |-> evaluate_agent_on_dataset("module_with_run_agent",
                        <<EvalOutcome(harness.answer, harness.output)>>),
           ret |-> find_failures_on_train("module_with_run_agent",
                        <<MineOutcome(harness.answer, harness.output)>>, 1)]
    /\ UNCHANGED <<pc, loop, gate, norm, loader>>

ClassifyNext == Classify

ClassifySpec == ClassifyInit /\ [][ClassifyNext]_vars

\* ------------------------------------------- the loader on its own
ModuleDirs == {"agent_folder", "seed_folder"}
ModuleNames == {"math_agent_v0", "v1"}
SysPaths ==
    { <<"site-packages">>, <<"agent_folder", "site-packages">>,
      <<"site-packages", "agent_folder">> }

LoaderInit ==
    /\ pc = "loader"
    /\ LoopIdle
    /\ gate = GateIdle
    /\ harness = HarnessIdle
    /\ norm = NormIdle
    /\ loader \in [phase : {"ready"}, sys_path : SysPaths, sys_modules : {{"sys"}},
                    sys_path0 : SysPaths, names : {{}}, exec : {"none"},
                    found : {TRUE}, ret : {"None"}, calls : {0}]
    /\ loader.sys_path0 = loader.sys_path

\* ret = load_agent_from_file(filepath, module_name), the file being in
\* module_dir.
Load ==
    /\ pc = "loader"
    /\ loader.phase = "ready"
    /\ loader.calls < MaxLoads
    /\ \E filepath \in {start_agent_path, ArtifactPath(1)}, module_dir \in ModuleDirs,
          module_name \in ModuleNames, exec \in Exec :
          LET agent_module == load_agent_from_file(files, filepath, exec) IN
          loader' = [loader EXCEPT
                        !.sys_path = sys_path_after(@, module_dir, agent_module),
                        !.sys_modules = sys_modules_after(@, module_name, agent_module),
                        !.names = @ \cup {module_name},
                        !.exec = exec,
                        !.found = filepath \in DOMAIN files,
                        !.ret = agent_module,
                        !.calls = @ + 1]
    /\ UNCHANGED <<pc, loop, gate, harness, norm>>

LoaderNext == Load

LoaderSpec == LoaderInit /\ [][LoaderNext]_vars

\* ================================================================ claims
Range(seq) == {seq[i] : i \in 1..Len(seq)}

GatePassed ==
    /\ ~(Strip(new_code) = Strip(parent_code))
    /\ validate_agent_model_usage(new_code, task_model)

\* C1: over a whole run the archive's length never decreases and no two
\* archive records carry the same version identifier.
C1_ArchiveGrowsWithUniqueIds ==
    /\ [][Len(archive') >= Len(archive)]_vars
    /\ [](\A i, j \in 1..Len(archive) : archive[i].id = archive[j].id => i = j)

C1_Witness ==
    /\ pc = "done"
    /\ Len(archive) = 3
    /\ agent_version_counter > 2

\* C2: an attempt whose proposal passes the novelty and the policy check and
\* whose child loads with run_agent appends exactly one record (parent_id the
\* selected parent's id, score the child's validation score, children_count
\* 0), adds one to the parent's children_count and changes no other record.
C2_AcceptedChild ==
    [][(pc = "child" /\ GatePassed /\ event'.exec = "defines_run_agent") =>
        LET p == parents[pidx]
            c == archive'[Len(archive')]
        IN /\ Len(archive') = Len(archive) + 1
           /\ c.parent_id = archive[p].id
           /\ c.score = event'.right
           /\ c.children_count = 0
           /\ archive'[p] =
                 [archive[p] EXCEPT !.children_count = archive[p].children_count + 1]
           /\ \A i \in 1..Len(archive) : i # p => archive'[i] = archive[i]]_vars

C2_Witness ==
    /\ event.kind = "archived"
    /\ Len(archive) = 3
    /\ archive[3].parent_id = archive[2].id
    /\ archive[2].children_count = 1
    /\ archive[3].score = 1

\* C3: the record returned on completion is an archive member whose score is
\* at least that of every archive record; with no accepted mutation it is
\* the seed v0.
C3_ReturnsBest ==
    pc = "done" =>
        /\ Len(result) = 1
        /\ result[1] \in Range(archive)
        /\ \A i \in 1..Len(archive) : result[1].score >= archive[i].score
        /\ (Len(archive) = 1 => result[1].id = VersionId(0))

C3_Witness ==
    /\ pc = "done"
    /\ Len(archive) = 3
    /\ result[1].id # VersionId(0)
    /\ result[1].score > archive[1].score

\* C4: a non-empty proposal equal to the parent's source after trimming both
\* is discarded: no record is appended, no artifact is written, the proposal
\* is neither loaded nor scored and no children_count changes.
C4_DuplicateDiscarded ==
    [][(pc = "child" /\ new_code # <<>> /\ new_code # NoCode
          /\ Strip(new_code) = Strip(parent_code)) =>
        /\ archive' = archive
        /\ files' = files
        /\ event'.exec = "none"
        /\ ~event'.scored]_vars

C4_Witness ==
    /\ event.kind = "identical"
    /\ Len(archive) >= 2
    /\ \E i \in 1..Len(archive) : archive[i].children_count > 0

\* A declaration `model = <quoted vendor literal lit>` occurs in code.
Declares(code, lit) ==
    \E i, e, q \in 1..Len(code) :
        /\ i < e /\ e < q /\ q + 2 <= Len(code)
        /\ code[i] \in ModelKeys
        /\ \A j \in (i + 1)..(e - 1) : code[j] = "ws"
        /\ code[e] = "="
        /\ \A j \in (e + 1)..(q - 1) : code[j] = "ws"
        /\ code[q] \in Quotes
        /\ code[q + 1] = lit
        /\ lit \in VendorLits
        /\ code[q + 2] \in Quotes

\* C5 as stated: the policy check rejects exactly the proposals that hold a
\* `model = <quoted gpt-/claude-/gemini- literal>` declaration whose literal
\* differs from the sanctioned task-model string.
C5_RejectsIffLiteralDiffers ==
    gate.verdict \in {"pass", "reject"} =>
        (gate.verdict = "reject" <=>
            \E lit \in VendorLits :
                /\ Declares(gate.code_string, lit)
                /\ <<lit>> # gate.allowed_model)

\* C5 amended: the policy check rejects exactly the proposals that hold such
\* a declaration whose literal differs from the sanctioned task-model string
\* with its leading and trailing whitespace removed.
C5_RejectsIffLiteralDiffersFromTrimmed ==
    gate.verdict \in {"pass", "reject"} =>
        (gate.verdict = "reject" <=>
            \E lit \in VendorLits :
                /\ Declares(gate.code_string, lit)
                /\ <<lit>> # Strip(gate.allowed_model))

C5_Witness ==
    /\ gate.verdict = "reject"
    /\ gate.allowed_model = <<"gpt-4o-mini", "ws">>
    /\ Declares(gate.code_string, "gpt-4o-mini")
    /\ Declares(gate.code_string, "claude-x")

C7_CounterPerAttempt ==
    /\ [][pc = "child" => agent_version_counter' = agent_version_counter + 1]_vars
    /\ [](\A i \in 1..Len(archive) : IdNum(archive[i].id) <= agent_version_counter)
    /\ [](\A i, j \in 1..Len(archive) :
            i < j => IdNum(archive[i].id) < IdNum(archive[j].id))

C7_Witness ==
    /\ Len(archive) = 3
    /\ archive[2].id = VersionId(2)
    /\ archive[3].id = VersionId(4)

AttemptFailed(kind) ==
    kind \in {"parent_load_failed", "no_failures", "parent_unreadable", "no_code",
              "identical", "model_validation", "not_functional"}

\* C8: once the seed is loaded and scored the run reaches completion and
\* returns an archive member, after num_iterations iterations or earlier
\* when no parent is selected; a failed attempt never aborts the run: the
\* loop goes on with the next selected parent, or with the next iteration.
C8_RunCompletes ==
    /\ (event.kind = "seed_ok") ~> (pc = "done")
    /\ [](pc = "done" =>
            /\ Len(result) = 1 /\ result[1] \in Range(archive)
            /\ \/ t = num_iterations
               \/ t < num_iterations /\ num_parents_to_select_k = 0)
    /\ [][(pc \in {"parent", "child"} /\ AttemptFailed(event'.kind)) =>
            IF pidx < Len(parents)
            THEN pc' = "parent" /\ pidx' = pidx + 1 /\ t' = t
            ELSE pc' = "select" /\ t' = t + 1]_vars

C8_Witness ==
    /\ pc = "done"
    /\ t = 2
    /\ Len(archive) = 1
    /\ agent_version_counter = 4

\* C9: a seed that fails to load or lacks run_agent aborts the run with no
\* result before any iteration, selection or append; otherwise the first
\* archive record is v0 with no parent, children_count 0 and the seed's
\* validation score; no other failure aborts the run.
C9_SeedInitialization ==
    /\ [][(pc = "init" /\ event'.exec \in {"raises", "no_run_agent"}) =>
            pc' = "aborted"]_vars
    /\ [](pc = "aborted" =>
            /\ archive = <<>> /\ result = <<>> /\ t = 0 /\ parents = <<>>
            /\ agent_version_counter = 0)
    /\ [](event.kind = "seed_ok" =>
            archive = <<[id |-> VersionId(0), path |-> start_agent_path,
                         score |-> event.right,
                         children_count |-> 0, parent_id |-> NoId]>>)
    /\ [](Len(archive) >= 1 =>
            archive[1].id = VersionId(0) /\ archive[1].parent_id = NoId)
    /\ [][pc' = "aborted" => pc \in {"init", "aborted"}]_vars
    /\ [](pc = "done" => Len(result) = 1)

C9_Witness ==
    /\ pc = "aborted"
    /\ event.exec = "no_run_agent"

\* C10: for a non-empty archive and k >= 1 select_parents returns exactly k
\* archive members; when some record scores below 1.0 every returned record
\* does, and records scoring 1.0 are returned only when none is below.
C10_SelectParents ==
    (event.kind = "selected") =>
        /\ Len(parents) = num_parents_to_select_k
        /\ \A i \in 1..Len(parents) : parents[i] \in 1..Len(archive)
        /\ (\E r \in Range(archive) : r.score < ValSize) =>
              \A i \in 1..Len(parents) : archive[parents[i]].score < ValSize

C10_Witness ==
    /\ event.kind = "selected"
    /\ Len(parents) = 2
    /\ \E r \in Range(archive) : r.score = ValSize
    /\ \E r \in Range(archive) : r.score < ValSize


\* C11: select_parents is read-only: a selection leaves the archive's
\* length and order and every field of every record as they were.
C11_SelectionReadOnly ==
    [][(pc = "select" /\ event'.kind \in {"selected", "break"}) =>
        /\ Len(archive') = Len(archive)
        /\ \A i \in 1..Len(archive) :
              /\ archive'[i].id = archive[i].id
              /\ archive'[i].score = archive[i].score
              /\ archive'[i].children_count = archive[i].children_count
              /\ archive'[i].parent_id = archive[i].parent_id
              /\ archive'[i].path = archive[i].path]_vars

C11_Witness ==
    /\ event.kind = "selected"
    /\ Len(archive) = 3
    /\ archive[1].children_count = 2
    /\ parents = <<2, 3>>


Functional(agent_module) == agent_module = "module_with_run_agent"
NonRight(runs, j) == Cardinality({i \in 1..j : runs[i] # "right"})

\* C12: find_failures_on_train with max_failures = N never returns more than
\* N failures; on a split of more than N samples that all fail it returns
\* exactly N failures and has called the candidate on exactly N samples.
C12_FailureCap ==
    harness.phase = "mined" =>
        /\ Len(harness.ret.failures) <= harness.max_failures
        /\ ( /\ Functional(harness.agent_module)
             /\ Len(harness.runs) > harness.max_failures
             /\ \A i \in 1..Len(harness.runs) : harness.runs[i] # "right" )
           => /\ Len(harness.ret.failures) = harness.max_failures
              /\ harness.ret.invoked = harness.max_failures

C12_Witness ==
    /\ harness.phase = "mined"
    /\ Functional(harness.agent_module)
    /\ harness.max_failures = 2
    /\ harness.runs = <<"wrong", "raise", "wrong">>
    /\ harness.ret.invoked = 2

\* C13: when the run raises on a sample, find_failures_on_train appends that
\* sample to failures with the error as its observed output, the failure
\* counts toward the cap, mining goes on with the next sample and the call
\* returns.
C13_RaisingSampleIsFailure ==
    (harness.phase = "mined" /\ Functional(harness.agent_module)) =>
        LET runs == harness.runs
            ret == harness.ret
            N == harness.max_failures
        IN  /\ \A i \in 1..ret.invoked :
                  runs[i] = "raise" =>
                      \E f \in 1..Len(ret.failures) :
                          ret.failures[f] = Entry(i, "Runtime Error")
            /\ Len(ret.failures) = NonRight(runs, ret.invoked)
            /\ Len(ret.failures) <= N
            /\ \A i \in 1..Len(runs) :
                  (runs[i] = "raise" /\ i <= ret.invoked /\ i < Len(runs)
                      /\ NonRight(runs, i) < N)
                  => ret.invoked > i

C13_Witness ==
    /\ harness.phase = "mined"
    /\ Functional(harness.agent_module)
    /\ harness.max_failures = 2
    /\ harness.runs = <<"raise", "right", "wrong">>
    /\ harness.ret.failures = <<Entry(1, "Runtime Error"), Entry(3, "Wrong Answer")>>
    /\ harness.ret.successes = <<Entry(2, "raw")>>

\* C14: evaluate_agent_on_dataset returns successes / total, a value between
\* 0 and 1; it returns 0 for an empty split and for a candidate without
\* run_agent; a sample whose run raises is no success, stays in the
\* denominator, and the samples after it are still evaluated.
C14_Accuracy ==
    harness.phase = "scored" =>
        LET runs == harness.runs
            successes == Cardinality({i \in 1..Len(runs) : runs[i] = "right"})
        IN  /\ 0 <= harness.ret /\ harness.ret <= Len(runs)
            /\ (Len(runs) = 0 \/ ~Functional(harness.agent_module))
                  => harness.ret = 0
            /\ (Len(runs) > 0 /\ Functional(harness.agent_module))
                  => harness.ret = successes

C14_Witness ==
    /\ harness.phase = "scored"
    /\ Functional(harness.agent_module)
    /\ harness.runs = <<"right", "raise", "right">>
    /\ harness.ret = 2


\* C15: extract_final_answer is idempotent; its result holds no comma and
\* does not end with a period; "1,234." gives "1234", "7.5" gives "7.5",
\* and a text without a digit gives the empty string.
C15_NormalizationIdempotent ==
    norm.phase = "done" =>
        /\ extract_final_answer(norm.ret) = norm.ret
        /\ "," \notin Range(norm.ret)
        /\ norm.ret # <<>> => norm.ret[Len(norm.ret)] # "."
        /\ norm.text = <<"1", ",", "2", "3", "4", ".">>
              => norm.ret = <<"1", "2", "3", "4">>
        /\ norm.text = <<"7", ".", "5">> => norm.ret = <<"7", ".", "5">>
        /\ Range(norm.text) \cap Digits = {} => norm.ret = <<>>

C15_Witness ==
    /\ norm.phase = "done"
    /\ norm.text = <<"####", " ", "1", ",", ".">>
    /\ norm.ret = <<"1">>


\* C16: after any sequence of load_agent_from_file calls the module search
\* path equals its value before the first call and the module registry holds
\* no entry under any logical name that was loaded.
C16_LoaderRestoresImportState ==
    loader.phase = "ready" =>
        /\ loader.sys_path = loader.sys_path0
        /\ loader.sys_modules \cap loader.names = {}

\* C17 as stated: a load of an artifact that raises or that lacks run_agent
\* reports an absent result.
C17_LoadFailureIsAbsent ==
    (loader.phase = "ready" /\ loader.calls > 0) =>
        /\ loader.ret \in {"None", "module", "module_with_run_agent"}
        /\ (~loader.found \/ loader.exec \in {"raises", "no_run_agent"})
              => loader.ret = "None"

\* C17: load_agent_from_file propagates no Exception; a missing file, a
\* syntax error and an Exception during top-level initialization give None;
\* an artifact that loads without run_agent is returned as a module that
\* the callers' hasattr test finds not functional.
C17_LoadFailureIsAbsentOrNotFunctional ==
    (loader.phase = "ready" /\ loader.calls > 0) =>
        /\ loader.ret \in {"None", "module", "module_with_run_agent"}
        /\ (~loader.found \/ loader.exec = "raises") => loader.ret = "None"
        /\ (loader.found /\ loader.exec = "no_run_agent")
              => (loader.ret = "module" /\ ~IsFunctional(loader.ret))
        /\ (loader.found /\ loader.exec = "defines_run_agent")
              => IsFunctional(loader.ret)

C17_Witness ==
    /\ loader.phase = "ready"
    /\ loader.calls = 2
    /\ loader.found
    /\ loader.exec = "no_run_agent"
    /\ loader.ret = "module"
    /\ "v1" \in loader.sys_modules


ChildArtifacts == DOMAIN files \ {start_agent_path}

C19_ArchiveIsForest ==
    /\ [](Len(archive) >= 1 =>
            /\ archive[1].id = VersionId(0)
            /\ archive[1].parent_id = NoId
            /\ \A i \in 2..Len(archive) :
                  /\ archive[i].parent_id # NoId
                  /\ \E j \in 1..(i - 1) : archive[j].id = archive[i].parent_id)
    /\ [][/\ Len(archive') >= Len(archive)
          /\ \A i \in 1..Len(archive) :
                /\ archive'[i].id = archive[i].id
                /\ archive'[i].score = archive[i].score
                /\ archive'[i].parent_id = archive[i].parent_id
                /\ archive'[i].path = archive[i].path]_vars

C19_Witness ==
    /\ Len(archive) = 3
    /\ archive[2].parent_id = VersionId(0)
    /\ archive[3].parent_id = archive[2].id
    /\ archive[2].children_count = 1

\* C20: the k parents of an iteration are drawn from the archive as it is
\* when the iteration starts and stay the same to its end; a record may be
\* drawn more than once and each occurrence is an attempt with a version id
\* of its own; a child accepted in the iteration is none of its parents.
C20_ParentsFixedAtIterationStart ==
    [][/\ event'.kind = "selected" =>
             /\ Len(parents') = num_parents_to_select_k
             /\ \A i \in 1..Len(parents') : parents'[i] \in 1..Len(archive)
       /\ (pc \in {"parent", "child"} /\ pc' \in {"parent", "child"})
             => parents' = parents
       /\ pc = "child" => agent_version_counter' = agent_version_counter + 1
       /\ event'.kind = "archived" =>
             /\ Len(archive') = Len(archive) + 1
             /\ archive'[Len(archive')].id = VersionId(agent_version_counter')
             /\ \A i \in 1..Len(archive) :
                   IdNum(archive[i].id) < agent_version_counter'
             /\ \A i \in 1..Len(parents) : parents[i] < Len(archive')]_vars

C20_Witness ==
    /\ event.kind = "archived"
    /\ num_parents_to_select_k = 2
    /\ t = 1
    /\ Len(archive) = 3
    /\ archive[1].children_count = 2
    /\ archive[2].parent_id = VersionId(0)
    /\ archive[3].parent_id = VersionId(0)
    /\ archive[2].id # archive[3].id


\* C21: when mining finds no failure for a selected parent the parent is
\* skipped: the developer agent is not asked, no version identifier is
\* consumed, the archive with every children_count and the persisted
\* artifacts stay as they are, and the loop goes on with the next parent.
C21_ZeroFailureParentSkipped ==
    [][(pc = "parent" /\ event'.kind = "no_failures") =>
        /\ proposals' = proposals
        /\ new_code' = NoCode
        /\ agent_version_counter' = agent_version_counter
        /\ archive' = archive
        /\ files' = files
        /\ IF pidx < Len(parents)
           THEN pc' = "parent" /\ pidx' = pidx + 1 /\ parents' = parents /\ t' = t
           ELSE pc' = "select" /\ t' = t + 1]_vars

C21_Witness ==
    /\ event.kind = "no_failures"
    /\ pc = "parent"
    /\ pidx = 2
    /\ Len(archive) = 2
    /\ archive[1].children_count = 1
    /\ agent_version_counter = 1


\* C22: an attempt discarded before loading (the developer agent gave
\* nothing or an empty text, the proposal equals the parent's source after
\* trimming, or the policy check rejects it) creates no record, writes no
\* artifact, changes no children_count and is neither loaded nor scored; a
\* child is loaded and scored only after the non-empty, the novelty and the
\* policy check passed, in that order.
C22_PreLoadDiscardHasNoEffect ==
    [][/\ ( \/ pc = "parent" /\ event'.kind = "no_code"
            \/ pc = "child" /\ ~GatePassed )
          => /\ archive' = archive
             /\ files' = files
             /\ event'.exec = "none"
             /\ ~event'.scored
       /\ (pc \in {"parent", "child"} /\ (event'.exec # "none" \/ event'.scored))
          => /\ pc = "child"
             /\ IsProposal(new_code)
             /\ GatePassed
       /\ pc' = "child" => IsProposal(new_code')
       /\ event'.kind = "identical" => IsProposal(new_code)
       /\ event'.kind = "model_validation"
          => (IsProposal(new_code) /\ ~(Strip(new_code) = Strip(parent_code)))]_vars

C22_Witness ==
    /\ event.kind = "model_validation"
    /\ Len(archive) = 2
    /\ archive[1].children_count = 1
    /\ archive[2].children_count = 0
    /\ agent_version_counter = 2
    /\ DOMAIN files = {start_agent_path, ArtifactPath(1)}


Samples(entries) == {entries[i].sample : i \in 1..Len(entries)}

\* C23: every sample find_failures_on_train called the candidate on is in
\* exactly one of the two returned lists, so len(failures) + len(successes)
\* is the number of samples processed; successes are not capped; a split
\* with fewer than max_failures failing samples is processed to its end.
C23_EveryProcessedSampleRecorded ==
    (harness.phase = "mined" /\ Functional(harness.agent_module)) =>
        LET runs == harness.runs
            ret == harness.ret
        IN  /\ Len(ret.failures) + Len(ret.successes) = ret.invoked
            /\ Samples(ret.failures) \cup Samples(ret.successes) = 1..ret.invoked
            /\ Samples(ret.failures) \cap Samples(ret.successes) = {}
            /\ Cardinality(Samples(ret.failures)) = Len(ret.failures)
            /\ Cardinality(Samples(ret.successes)) = Len(ret.successes)
            /\ Samples(ret.successes) = {i \in 1..ret.invoked : runs[i] = "right"}
            /\ NonRight(runs, Len(runs)) < harness.max_failures
                  => ret.invoked = Len(runs)

C23_Witness ==
    /\ harness.phase = "mined"
    /\ Functional(harness.agent_module)
    /\ harness.max_failures = 1
    /\ harness.runs = <<"right", "right", "raise">>
    /\ Len(harness.ret.successes) = 2
    /\ Len(harness.ret.failures) = 1
    /\ harness.ret.invoked = 3


\* C24: scoring and mining classify a sample whose run does not raise by the
\* same rule: mining records it as a success exactly when scoring counts it,
\* that is when the normalized output equals the normalized reference and
\* the normalized reference is not empty; with an empty normalized reference
\* the sample is no success even when the normalized output is empty too.
C24_SameClassification ==
    (harness.phase = "classified" /\ harness.output # Raised) =>
        LET reference == extract_final_answer(harness.answer)
            answer == extract_final_answer(harness.output)
            scored == harness.score = 1
            mined == Len(harness.ret.successes) = 1
        IN  /\ mined <=> scored
            /\ scored <=> (answer = reference /\ reference # <<>>)
            /\ Len(harness.ret.successes) + Len(harness.ret.failures) = 1
            /\ reference = <<>> => (~scored /\ ~mined)

C24_Witness ==
    /\ harness.phase = "classified"
    /\ harness.answer = <<"x", ".">>
    /\ harness.output = <<",">>
    /\ harness.score = 0
    /\ harness.ret.failures = <<Entry(1, "Wrong Answer")>>


Children(i) == {j \in 1..Len(archive) : archive[j].parent_id = archive[i].id}

\* C25: between attempts every archive record's children_count is the number
\* of archive records whose parent_id is that record's id: a discarded child
\* is not counted, an accepted child is counted once.
C25_ChildrenCountMatchesArchive ==
    \A i \in 1..Len(archive) :
        archive[i].children_count = Cardinality(Children(i))

C25_Witness ==
    /\ event.kind = "not_functional"
    /\ Len(archive) = 3
    /\ archive[1].children_count = 2
    /\ Cardinality(Children(1)) = 2
    /\ archive[2].children_count = 0
    /\ agent_version_counter = 3

\* C26: the version counter advances only on a non-empty proposal; a parent
\* that fails to reload, has no mined failure or cannot be read, and a
\* developer agent that returns nothing, leave it unchanged; the counter is
\* the number of non-empty proposals received so far (pc = "child" is the
\* point between the receipt and the increment of line 161) and the number
\* of non-seed archive records never exceeds it.
C26_CounterCountsProposals ==
    /\ [](agent_version_counter + (IF pc = "child" THEN 1 ELSE 0) = proposals)
    /\ [](Len(archive) >= 1 => Len(archive) - 1 <= agent_version_counter)
    /\ [][/\ agent_version_counter' # agent_version_counter
             => (pc = "child" /\ IsProposal(new_code))
          /\ event'.kind \in {"parent_load_failed", "no_failures",
                              "parent_unreadable", "no_code"}
             => (agent_version_counter' = agent_version_counter
                 /\ proposals' = proposals)]_vars

C26_Witness ==
    /\ event.kind = "no_code"
    /\ agent_version_counter = 2
    /\ proposals = 2
    /\ Len(archive) = 2

\* C27: when several archive records share the highest score the record
\* returned is the one of them appended first (lowest version identifier);
\* a child that only ties the seed's score does not replace the seed.
C27_TieGoesToEarliest ==
    pc = "done" =>
        \A i \in 1..Len(archive) :
            (\A j \in 1..Len(archive) : archive[i].score >= archive[j].score)
            => /\ IdNum(result[1].id) <= IdNum(archive[i].id)
               /\ \E k \in 1..i : archive[k] = result[1]

C27_Witness ==
    /\ pc = "done"
    /\ Len(archive) = 3
    /\ archive[1].score = archive[2].score
    /\ archive[3].score = archive[1].score
    /\ result[1].id = VersionId(0)

====
